---- MODULE Spec2Model ----
(***************************************************************************)
(* Model of kernel_exp_family/estimators/full/gaussian.py: the Gaussian    *)
(* kernel derivative formulas, the assembly and solution of the score      *)
(* matching linear system, the evaluators log_pdf / grad, and the          *)
(* KernelExpFullGaussian estimator object.                                 *)
(*                                                                         *)
(* Numbers.  A float is modelled by an exact fraction <<num, den>> in      *)
(* lowest terms with den > 0.  The three IEEE specials keep den = 0:       *)
(* <<0,0>> is nan, <<1,0>> is +inf and <<-1,0>> is -inf, so that 0/0,      *)
(* x/0, inf*0 and inf-inf come out as numpy computes them.  Rounding and   *)
(* signed zeros are not modelled.  exp is only ever applied to -r/sigma    *)
(* with r an integer squared distance; it is modelled on the multiples of  *)
(* 1/2 by exp(-k/2) = T^k with the fraction T standing for e^(-1/2),       *)
(* which keeps exp(a+b) = exp(a)*exp(b), exp(0) = 1 and 0 < exp(-q) < 1.   *)
(***************************************************************************)
EXTENDS Integers, Sequences, FiniteSets, TLC

----------------------------------------------------------------------------
(* Bounds of the model                                                     *)

\* largest number of rows of a matrix handed to fit
MaxRows == 3
\* largest number of rows of a batch handed to log_pdf_multiple
MaxBatch == 2
\* largest number of entries (rows times columns) of an array argument
MaxEntries == 4
\* largest number D * N of coefficients of an estimator that is constructed
MaxCoeffs == 2
\* largest number N * D of coefficients solved for when l ** 2 = 1/2
MaxSolve == 2

\* entries of sample matrices and of query vectors
Vals == {0, 1}
\* constructor arguments that are tried
SigmaChoices == {0, 2}
LmbdaChoices == {0, 1}
DChoices == {-1, 0, 1, 2}
NChoices == {-1, 0, 1, 2}
\* column counts of the arrays handed to fit and to the queries
ColChoices == {0, 1, 2}

----------------------------------------------------------------------------
(* Floats as fractions                                                     *)

Abs(i) == IF i < 0 THEN -i ELSE i

Sgn(i) == IF i < 0 THEN -1 ELSE IF i > 0 THEN 1 ELSE 0

RECURSIVE GCD(_, _)
GCD(a, b) == IF b = 0 THEN a ELSE GCD(b, a % b)

\* n / d divided through by g = gcd(n, d), the denominator positive
Lowest(n, d, g) == <<Sgn(d) * (n \div g), Abs(d) \div g>>

Norm(n, d) ==
    IF d = 0 THEN <<Sgn(n), 0>> ELSE Lowest(n, d, GCD(Abs(n), Abs(d)))

R(i) == <<i, 1>>
Zero == <<0, 1>>
One == <<1, 1>>
NaN == <<0, 0>>

IsFinite(a) == a[2] # 0

Neg(a) == <<-a[1], a[2]>>

\* a + b over the denominator lcm(a[2], b[2]), g their gcd
AddOver(a, b, g) ==
    Norm(a[1] * (b[2] \div g) + b[1] * (a[2] \div g), (a[2] \div g) * b[2])

Add(a, b) ==
    IF a[2] = 0 /\ b[2] = 0 THEN (IF a = b THEN a ELSE NaN)
    ELSE IF a[2] = 0 THEN a
    ELSE IF b[2] = 0 THEN b
    ELSE AddOver(a, b, GCD(a[2], b[2]))

Sub(a, b) == Add(a, Neg(b))

\* a * b with the common factors g1 of a[1], b[2] and g2 of b[1], a[2] removed
MulOver(a, b, g1, g2) ==
    IF g1 = 0 \/ g2 = 0 THEN Norm(a[1] * b[1], a[2] * b[2])
    ELSE Norm((a[1] \div g1) * (b[1] \div g2), (a[2] \div g2) * (b[2] \div g1))

Mul(a, b) == MulOver(a, b, GCD(Abs(a[1]), b[2]), GCD(Abs(b[1]), a[2]))

Inv(a) == Norm(a[2], a[1])

Div(a, b) == Mul(a, Inv(b))

RECURSIVE Pow(_, _)
Pow(a, k) == IF k = 0 THEN One ELSE Mul(a, Pow(a, k - 1))

\* stands for exp(-1/2) = 0.6065...; a fraction of small terms keeps the
\* entries of the linear systems within the range of the integers
T == <<1, 2>>

\* np.exp(q) for q <= 0 a multiple of 1/2, for -inf and for nan
Exp(q) ==
    IF q = NaN THEN NaN
    ELSE IF q = <<-1, 0>> THEN Zero
    ELSE LET k == Div(Neg(q), <<1, 2>>) IN Pow(T, k[1])

----------------------------------------------------------------------------
(* Arrays: a vector is a sequence of floats, a matrix a sequence of rows   *)

\* the arrays are built as sequences (SubSeq yields the whole sequence, with
\* every entry computed once)
Vec(n, f(_)) == SubSeq([i \in 1..n |-> f(i)], 1, n)

Mat(n, m, f(_, _)) == Vec(n, LAMBDA i : Vec(m, LAMBDA j : f(i, j)))

RECURSIVE SumTo(_, _)
SumTo(v, k) == IF k = 0 THEN Zero ELSE Add(SumTo(v, k - 1), v[k])

\* np.sum of a vector
Sum(v) == SumTo(v, Len(v))

\* np.dot of two vectors
Dot(u, v) == Sum(Vec(Len(u), LAMBDA i : Mul(u[i], v[i])))

\* the sums along the other axis: entry i is the sum over j of M[i][j]
SumAxis0Rows(M, m) == Vec(m, LAMBDA i : Sum(M[i]))

\* np.sum(M, axis=0) of an n x m matrix: entry j is the sum over i of M[i][j]
SumAxis0(M, m) == Vec(m, LAMBDA j : Sum(Vec(Len(M), LAMBDA i : M[i][j])))

\* np.sum(M, axis=1): entry i is the sum over j of M[i][j]
SumAxis1(M) == Vec(Len(M), LAMBDA i : Sum(M[i]))

\* np.sum of a matrix
SumAll(M) == Sum(SumAxis1(M))

\* M.reshape(-1) of an n x m matrix, row-major
Flatten(M, m) == Vec(Len(M) * m, LAMBDA k : M[((k - 1) \div m) + 1][((k - 1) % m) + 1])

\* v.reshape(n, m), row-major
Reshape(v, n, m) == Mat(n, m, LAMBDA i, j : v[(i - 1) * m + j])

Eye(i, j) == IF i = j THEN One ELSE Zero

\* a row of an integer sample matrix as a column vector of floats
Col(row) == Vec(Len(row), LAMBDA i : R(row[i]))

----------------------------------------------------------------------------
(* The kernel and its derivatives.  The argument l2 is l ** 2; the source  *)
(* only uses the even powers l ** 2, l ** 4, l ** 6 and l ** 8.            *)

\* a local name for a value: Bind(e, LAMBDA v : body) is body with v = e,
\* e being computed once
Bind(e, F(_)) == F(e)

SE(x, y, l2) ==
    Bind(Vec(Len(x), LAMBDA i : Sub(x[i], y[i])), LAMBDA diff :
        Exp(Div(Neg(Dot(diff, diff)), Mul(R(2), l2))))

SE_dx(x, y, l2) ==
    Bind(SE(x, y, l2), LAMBDA k :
        Vec(Len(x), LAMBDA i : Div(Mul(k, Sub(y[i], x[i])), l2)))

SE_dx_dx(x, y, l2) ==
    Bind(SE(x, y, l2), LAMBDA k :
        Vec(Len(x), LAMBDA i :
            Sub(Div(Mul(k, Pow(Sub(y[i], x[i]), 2)), Pow(l2, 2)), Div(k, l2))))

SE_dx_dy(x, y, l2) ==
    Bind(SE(x, y, l2), LAMBDA SE_tmp :
        LET d(i) == Sub(x[i], y[i])
            term1(i, j) == Div(Mul(SE_tmp, Eye(i, j)), l2)
            term2(i, j) == Div(Mul(SE_tmp, Mul(d(i), d(j))), Pow(l2, 2))
        IN  Mat(Len(x), Len(x), LAMBDA i, j : Sub(term1(i, j), term2(i, j))))

SE_dx_dx_dy(x, y, l2) ==
    Bind(SE(x, y, l2), LAMBDA SE_tmp :
        LET d(i) == Sub(x[i], y[i])
            term1(i, j) == Div(Mul(SE_tmp, Mul(Pow(d(i), 2), d(j))), Pow(l2, 3))
            term2(i, j) == Div(Mul(Mul(SE_tmp, R(2)), Mul(Eye(i, j), d(i))), Pow(l2, 2))
            term3(i, j) == Div(Mul(SE_tmp, d(j)), Pow(l2, 2))
        IN  Mat(Len(x), Len(x), LAMBDA i, j :
                Sub(Sub(term1(i, j), term2(i, j)), term3(i, j))))

SE_dx_dx_dy_dy(x, y, l2) ==
    Bind(SE(x, y, l2), LAMBDA SE_tmp :
        LET d(i) == Sub(x[i], y[i])
            off(i, j) == Sub(One, Eye(i, j))
            term1(i, j) == Div(Mul(SE_tmp, Pow(Mul(d(i), d(j)), 2)), Pow(l2, 4))
            term2(i, j) == Div(Mul(Mul(SE_tmp, R(6)), Mul(Eye(i, j), Pow(d(i), 2))),
                               Pow(l2, 3))
            term3(i, j) == Div(Mul(Mul(off(i, j), SE_tmp), Pow(d(i), 2)), Pow(l2, 3))
            term4(i, j) == Div(Mul(Mul(off(i, j), SE_tmp), Pow(d(j), 2)), Pow(l2, 3))
            term5(i, j) == Div(Mul(SE_tmp, Add(One, Mul(R(2), Eye(i, j)))), Pow(l2, 2))
        IN  Mat(Len(x), Len(x), LAMBDA i, j :
                Add(Sub(Sub(Sub(term1(i, j), term2(i, j)), term3(i, j)), term4(i, j)),
                    term5(i, j))))

SE_dx_i_dx_j(x, y, l2) ==
    Bind(SE(x, y, l2), LAMBDA k :
        LET d(i) == Sub(y[i], x[i])
            pairwise_dist(i, j) == Mul(d(i), d(j))
            term1(i, j) == Div(Mul(k, pairwise_dist(i, j)), Pow(l2, 2))
            term2(i, j) == Div(Mul(k, Eye(i, j)), l2)
        IN  Mat(Len(x), Len(x), LAMBDA i, j : Sub(term1(i, j), term2(i, j))))

SE_dx_i_dx_i_dx_j(x, y, l2) ==
    Bind(SE(x, y, l2), LAMBDA k :
        LET d(i) == Sub(y[i], x[i])
            pairwise_dist_squared_i(i, j) == Mul(Pow(d(i), 2), d(j))
            row_repeated_distances(i, j) == d(j)
            term1(i, j) == Div(Mul(k, pairwise_dist_squared_i(i, j)), Pow(l2, 3))
            term2(i, j) == Div(Mul(k, row_repeated_distances(i, j)), Pow(l2, 2))
            term3(i, j) == Mul(Mul(term2(i, j), R(2)), Eye(i, j))
        IN  Mat(Len(x), Len(x), LAMBDA i, j :
                Sub(Sub(term1(i, j), term2(i, j)), term3(i, j))))

----------------------------------------------------------------------------
(* Sufficient statistics.  data is a sequence of n rows of d integers.     *)

\* l ** 2 for l = np.sqrt(np.float(sigma) / 2); the root of a negative is nan
LSq(sigma) == IF sigma < 0 THEN NaN ELSE Norm(sigma, 2)

\* u + v, entry by entry
VecAdd(u, v) == Vec(Len(u), LAMBDA j : Add(u[j], v[j]))

RECURSIVE compute_h_row(_, _, _, _, _)
\* the inner loop of compute_h: h[b, :] after the iterations a = 1..k
compute_h_row(data, b, k, d, l2) ==
    IF k = 0 THEN Vec(d, LAMBDA j : Zero)
    ELSE VecAdd(compute_h_row(data, b, k - 1, d, l2),
                SumAxis0(SE_dx_dx_dy(Col(data[k]), Col(data[b]), l2), d))

compute_h(data, d, l2) ==
    Vec(Len(data), LAMBDA b :
        Bind(compute_h_row(data, b, Len(data), d, l2), LAMBDA row :
            Vec(d, LAMBDA j : Div(row[j], R(Len(data))))))

\* the double loop of compute_xi_norm_2, pairs (a, b) in row-major order
RECURSIVE xi_norm_sum(_, _, _)
xi_norm_sum(data, k, l2) ==
    IF k = 0 THEN Zero
    ELSE Add(xi_norm_sum(data, k - 1, l2),
             SumAll(SE_dx_dx_dy_dy(Col(data[((k - 1) \div Len(data)) + 1]),
                                   Col(data[((k - 1) % Len(data)) + 1]), l2)))

\* With no rows norm_2 is still the int 0 and n ** 2 the int 0: 0 / 0 raises.
compute_xi_norm_2(data, l2) ==
    IF Len(data) = 0 THEN [raised |-> "ZeroDivisionError", val |-> NaN]
    ELSE [raised |-> "",
          val |-> Div(xi_norm_sum(data, Len(data) * Len(data), l2),
                      R(Len(data) * Len(data)))]

\* The collaborator kernels.gaussian_kernel_hessians, by its contract: the
\* (n d) x (n d) matrix whose block (a, b) is SE_dx_dy(X[a], X[b], l).
gaussian_kernel_hessians(X, d, sigma) ==
    Bind(Mat(Len(X), Len(X), LAMBDA a, b : SE_dx_dy(Col(X[a]), Col(X[b]), LSq(sigma))),
         LAMBDA blk :
        Mat(Len(X) * d, Len(X) * d, LAMBDA r, c :
            blk[((r - 1) \div d) + 1][((c - 1) \div d) + 1]
               [((r - 1) % d) + 1][((c - 1) % d) + 1]))

----------------------------------------------------------------------------
(* Assembly of the linear system                                           *)

\* np.dot(P, Q) of two m x m matrices
MatMul(P, Q) ==
    Mat(Len(P), Len(P), LAMBDA i, j : Sum(Vec(Len(P), LAMBDA k : Mul(P[i][k], Q[k][j]))))

\* np.dot(v, Q) of a vector and an m x m matrix
VecMat(v, Q) ==
    Vec(Len(v), LAMBDA j : Sum(Vec(Len(v), LAMBDA k : Mul(v[k], Q[k][j]))))

\* a ridge term in place of the regularizer: lmbda times the identity
compute_lower_right_submatrixRidge(all_hessians, N, lmbda) ==
    Bind(MatMul(all_hessians, all_hessians), LAMBDA HH :
        Mat(Len(all_hessians), Len(all_hessians), LAMBDA i, j :
            Add(Div(HH[i][j], R(N)), Mul(R(lmbda), Eye(i, j)))))

compute_lower_right_submatrix(all_hessians, N, lmbda) ==
    Bind(MatMul(all_hessians, all_hessians), LAMBDA HH :
        Mat(Len(all_hessians), Len(all_hessians), LAMBDA i, j :
            Add(Div(HH[i][j], R(N)), Mul(R(lmbda), all_hessians[i][j]))))

compute_first_row(h, all_hessians, n, lmbda) ==
    Bind(VecMat(h, all_hessians), LAMBDA hH :
        Vec(Len(h), LAMBDA j : Add(Div(hH[j], R(n)), Mul(R(lmbda), h[j]))))

compute_RHS(h, xi_norm_2) ==
    Vec(Len(h) + 1, LAMBDA k : IF k = 1 THEN Neg(xi_norm_2) ELSE Neg(h[k - 1]))

\* the assembly without A[1:, 0] = A[0, 1:]: the first column stays zero
assembleNoCopy(A00, lower, first) ==
    Mat(Len(first) + 1, Len(first) + 1, LAMBDA i, j :
        IF i = 1 /\ j = 1 THEN A00
        ELSE IF i = 1 THEN first[j - 1]
        ELSE IF j = 1 THEN Zero
        ELSE lower[i - 1][j - 1])

\* the matrix A of build_system from its blocks: A[0, 0], then A[1:, 1:],
\* then A[0, 1:], then A[1:, 0] = A[0, 1:]
assemble(A00, lower, first) ==
    Mat(Len(first) + 1, Len(first) + 1, LAMBDA i, j :
        IF i = 1 /\ j = 1 THEN A00
        ELSE IF i = 1 THEN first[j - 1]
        ELSE IF j = 1 THEN first[i - 1]
        ELSE lower[i - 1][j - 1])

\* build_system once h, all_hessians and xi_norm_2 are computed
build_system_from(h, all_hessians, xi_norm_2, n, lmbda) ==
    [raised |-> "",
     A |-> assemble(Add(Div(Dot(h, h), R(n)), Mul(R(lmbda), xi_norm_2)),
                    compute_lower_right_submatrix(all_hessians, n, lmbda),
                    compute_first_row(h, all_hessians, n, lmbda)),
     b |-> compute_RHS(h, xi_norm_2)]

\* A and b of build_system, or the exception it ends with
build_system(X, d, sigma, lmbda) ==
    Bind(compute_xi_norm_2(X, LSq(sigma)), LAMBDA xi_norm_2 :
        IF xi_norm_2.raised # ""
        THEN [raised |-> xi_norm_2.raised, A |-> <<>>, b |-> <<>>]
        ELSE build_system_from(Flatten(compute_h(X, d, LSq(sigma)), d),
                               gaussian_kernel_hessians(X, d, sigma),
                               xi_norm_2.val, Len(X), lmbda))

----------------------------------------------------------------------------
(* np.linalg.solve and fit                                                 *)

\* the first row from k on with a nonzero entry in column k, 0 if none
RECURSIVE Pivot(_, _, _)
Pivot(M, k, p) ==
    IF p > Len(M) THEN 0 ELSE IF M[p][k] # Zero THEN p ELSE Pivot(M, k, p + 1)

\* one step of Gauss-Jordan elimination on [A | b]: row k is scaled to a
\* leading 1 and column k is cleared in the other rows
Clear(M, rowk, k) ==
    Vec(Len(M), LAMBDA i :
        IF i = k THEN rowk
        ELSE Vec(Len(rowk), LAMBDA j : Sub(M[i][j], Mul(M[i][k], rowk[j]))))

Scale(row, piv) == Vec(Len(row), LAMBDA j : Div(row[j], piv))

\* Gauss-Jordan elimination of the augmented matrix M = [A | b] from column
\* k on; <<>> when a column has no pivot (A is singular)
RECURSIVE Eliminate(_, _)
Eliminate(M, k) ==
    IF k > Len(M) THEN M
    ELSE Bind(Pivot(M, k, k), LAMBDA p :
        IF p = 0 THEN <<>>
        ELSE Bind([M EXCEPT ![k] = M[p], ![p] = M[k]], LAMBDA sw :
            Eliminate(Clear(sw, Scale(sw[k], sw[k][k]), k), k + 1)))

AllFinite(A, b) ==
    /\ \A i \in 1..Len(b) : IsFinite(b[i])
    /\ \A i \in 1..Len(b) : \A j \in 1..Len(b) : IsFinite(A[i][j])

\* np.linalg.solve(A, b): the solution of A x = b, LinAlgError when A is
\* singular.  LAPACK does not reject nan or inf entries, it computes with
\* them; the matrices built here are then nan throughout and so is x.
solve(A, b) ==
    IF ~AllFinite(A, b) THEN [raised |-> "", x |-> Vec(Len(b), LAMBDA i : NaN)]
    ELSE Bind(Eliminate(Vec(Len(b), LAMBDA i : Append(A[i], b[i])), 1), LAMBDA red :
        IF red = <<>> THEN [raised |-> "LinAlgError", x |-> <<>>]
        ELSE [raised |-> "", x |-> Vec(Len(b), LAMBDA i : red[i][Len(b) + 1])])

\* a 2-d coefficient array of n rows
Beta2(n, d, M) == [ndim |-> 2, rows |-> n, val |-> M]

\* the 1-d array np.zeros(k)
Zeros1(k) == [ndim |-> 1, rows |-> k, val |-> Vec(k, LAMBDA i : Zero)]

\* what a call of fit that raises leaves: no alpha, no beta
FitRaised(err) == [raised |-> err, alpha |-> NaN, beta |-> Zeros1(0)]

\* alpha = x[0] and beta = x[1:].reshape(n, d)
unpack(x, n, d) ==
    [raised |-> "", alpha |-> x[1], beta |-> Beta2(n, d, Reshape(Tail(x), n, d))]

fit(X, d, sigma, lmbda) ==
    Bind(build_system(X, d, sigma, lmbda), LAMBDA sys :
        IF sys.raised # "" THEN FitRaised(sys.raised)
        ELSE Bind(solve(sys.A, sys.b), LAMBDA sol :
            IF sol.raised # "" THEN FitRaised(sol.raised)
            ELSE unpack(sol.x, Len(X), d)))

----------------------------------------------------------------------------
(* Evaluation.  A query x is a 1-d array, a sequence of integers.          *)

\* The collaborator assertions.assert_array_shape(x, ndim=1, dims={0: D})
\* for a 1-d array x, by its contract: it raises on a mismatch.
assert_array_shape1(x, D) == Len(x) = D

\* beta[a, :] raises IndexError on a 1-d beta and on a row beta does not have
BetaRowOk(beta, a) == beta.ndim = 2 /\ a <= beta.rows

\* one iteration of the loop of log_pdf on <<xi, betasum>>
log_pdf_step(acc, x, x_a, l2, beta_a, N) ==
    <<Add(acc[1], Div(Sum(SE_dx_dx(x, x_a, l2)), R(N))),
      Add(acc[2], Dot(SE_dx(x, x_a, l2), beta_a))>>

RECURSIVE log_pdf_loop(_, _, _, _, _)
\* <<xi, betasum>> of log_pdf after the iterations a = 1..k
log_pdf_loop(x, X, l2, beta, k) ==
    IF k = 0 THEN <<Zero, Zero>>
    ELSE log_pdf_step(log_pdf_loop(x, X, l2, beta, k - 1),
                      Col(x), Col(X[k]), l2, beta.val[k], Len(X))

log_pdf(x, X, D, sigma, alpha, beta) ==
    IF ~assert_array_shape1(x, D) THEN [raised |-> "ShapeMismatchError", val |-> NaN]
    ELSE IF \E a \in 1..Len(X) : ~BetaRowOk(beta, a)
    THEN [raised |-> "IndexError", val |-> NaN]
    ELSE Bind(log_pdf_loop(x, X, LSq(sigma), beta, Len(X)), LAMBDA acc :
            [raised |-> "", val |-> Add(Mul(alpha, acc[1]), acc[2])])

\* one iteration of the loop of grad on <<xi_grad, betasum_grad>>
grad_step(acc, x, x_a, l2, beta_a, N) ==
    <<VecAdd(acc[1], Scale(SumAxis0(SE_dx_i_dx_i_dx_j(x, x_a, l2), Len(x)), R(N))),
      VecAdd(acc[2], VecMat(beta_a, SE_dx_i_dx_j(x, x_a, l2)))>>

RECURSIVE grad_loop(_, _, _, _, _)
\* <<xi_grad, betasum_grad>> of grad after the iterations a = 1..k, k >= 1
\* (0 + v is v, entry by entry)
grad_loop(x, X, l2, beta, k) ==
    grad_step(IF k = 1 THEN <<Vec(Len(x), LAMBDA j : Zero), Vec(Len(x), LAMBDA j : Zero)>>
              ELSE grad_loop(x, X, l2, beta, k - 1),
              Col(x), Col(X[k]), l2, beta.val[k], Len(X))

\* With no rows in X the loop never runs and xi_grad and betasum_grad are
\* still the ints 0: the result is the scalar alpha * 0 + 0 (ndim 0).
grad(x, X, D, sigma, alpha, beta) ==
    IF ~assert_array_shape1(x, D)
    THEN [raised |-> "ShapeMismatchError", ndim |-> 0, val |-> <<>>]
    ELSE IF \E a \in 1..Len(X) : ~BetaRowOk(beta, a)
    THEN [raised |-> "IndexError", ndim |-> 0, val |-> <<>>]
    ELSE IF Len(X) = 0
    THEN [raised |-> "", ndim |-> 0, val |-> <<Add(Mul(alpha, Zero), Zero)>>]
    ELSE Bind(grad_loop(x, X, LSq(sigma), beta, Len(X)), LAMBDA acc :
            [raised |-> "", ndim |-> 1,
             val |-> Vec(D, LAMBDA j : Add(Mul(alpha, acc[1][j]), acc[2][j]))])

----------------------------------------------------------------------------
(* The estimator object.  An array argument is [ndim, cols, rows]: a 2-d   *)
(* array of Len(rows) rows and cols columns, or (ndim = 1) the 1-d array   *)
(* rows[1] of length cols.                                                 *)

VARIABLES
    phase,      \* "none": no estimator yet; "unfit": constructed, fit never
                \* called; "fit": fit has been called
    self_sigma, self_lmbda, self_D, self_N,     \* the hyperparameters
    self_X,          \* self.X, always of self.D columns
    self_alpha,      \* self.alpha
    self_beta,       \* self.beta
    ret,        \* the last call: its name, what it raised, what it returned
    arg,        \* the array argument of the last call
    repeat      \* the last two calls were fit, of the same array

vars == <<phase, self_sigma, self_lmbda, self_D, self_N, self_X, self_alpha, self_beta, ret, arg, repeat>>

\* an estimator has been constructed
live == phase # "none"

hyper == <<self_sigma, self_lmbda, self_D, self_N>>
coeffs == <<self_X, self_alpha, self_beta>>

Array2(c, rows) == [ndim |-> 2, cols |-> c, rows |-> rows]
Array1(v) == [ndim |-> 1, cols |-> Len(v), rows |-> <<v>>]
NoArray == Array2(0, <<>>)

Rows(c, maxn) == UNION {[1..n -> [1..c -> Vals]] : n \in {k \in 0..maxn : k * c <= MaxEntries}}

\* one array of every shape; a call that rejects the shape never reads more
Filler == CHOOSE v \in Vals : TRUE
Shapes2(maxn) ==
    UNION {{Array2(c, Vec(n, LAMBDA i : Vec(c, LAMBDA j : Filler))) :
                n \in {k \in 0..maxn : k * c <= MaxEntries}} : c \in ColChoices}
Shapes1 == {Array1(Vec(c, LAMBDA j : Filler)) : c \in ColChoices}

\* the 2-d arrays of d columns and up to maxn rows, and one of every other shape
Arrays2(d, maxn) == {Array2(d, rows) : rows \in Rows(d, maxn)} \cup Shapes2(maxn)

\* the 1-d arrays of length d, and one of every other length
Arrays1(d) == {Array1(v) : v \in [1..d -> Vals]} \cup Shapes1

\* the length of the slice v[:k] of a sequence of n entries: a negative k
\* counts from the end
SliceLen(n, k) ==
    IF k >= 0 THEN (IF k < n THEN k ELSE n) ELSE (IF n + k > 0 THEN n + k ELSE 0)

\* np.random.permutation(n)[:k]: distinct indices, in any order
Perms(n, k) ==
    {p \in [1..SliceLen(n, k) -> 1..n] :
        \A i, j \in 1..SliceLen(n, k) : p[i] = p[j] => i = j}

Returned(op, val) == [op |-> op, raised |-> "", ndim |-> 0, val |-> val]
Raised(op, err) == [op |-> op, raised |-> err, ndim |-> 0, val |-> <<>>]

\* The collaborator assertions.assert_array_shape(A, ndim=2, dims={1: d}),
\* by its contract: it raises unless A is 2-d with d columns.
assert_array_shape2(A, d) == A.ndim = 2 /\ A.cols = d

Init ==
    /\ phase = "none"
    /\ self_sigma = 0 /\ self_lmbda = 0 /\ self_D = 0 /\ self_N = 0
    /\ self_X = <<>>
    /\ self_alpha = Zero
    /\ self_beta = Zeros1(0)
    /\ ret = Returned("none", <<>>)
    /\ arg = NoArray
    /\ repeat = FALSE

\* KernelExpFullGaussian(s, l, d, n).  np.zeros(D * N) and np.zeros((0, D))
\* raise ValueError on a negative dimension.
Construct(s, l, d, n) ==
    /\ ~live
    /\ arg' = NoArray
    /\ repeat' = FALSE
    /\ IF d * n < 0 \/ d < 0
       THEN /\ ret' = Raised("__init__", "ValueError")
            /\ UNCHANGED <<phase, hyper, coeffs>>
       ELSE /\ phase' = "unfit"
            /\ self_sigma' = s /\ self_lmbda' = l /\ self_D' = d /\ self_N' = n
            /\ self_alpha' = Zero
            /\ self_beta' = Zeros1(d * n)
            /\ self_X' = <<>>
            /\ ret' = Returned("__init__", <<>>)

\* The sample matrices an estimator can retain, with its hyperparameters, and
\* what fit returns for each.  fit is a function of these alone, so the table
\* is computed once instead of at every step.
FitKeys ==
    UNION {{<<rows, d, s, l>> :
                rows \in {r \in Rows(d, MaxRows) :
                            \E n \in NChoices, m \in 0..MaxRows :
                                /\ d * n \in 0..MaxCoeffs
                                /\ Len(r) = IF m > n THEN SliceLen(m, n) ELSE m},
                s \in SigmaChoices, l \in LmbdaChoices} :
           d \in {k \in DChoices : k >= 0}}

FitTable == [k \in FitKeys |-> fit(k[1], k[2], k[3], k[4])] @@ <<>>

\* the assignment to self.X in KernelExpFullGaussian.fit
Subsample(A, inds) ==
    IF Len(A.rows) > self_N THEN Vec(Len(inds), LAMBDA i : A.rows[inds[i]]) ELSE A.rows

\* a warm start: the new alpha is added to the old one
fit_wrapper_Accumulate(res) ==
    IF res.raised # ""
    THEN /\ ret' = Raised("fit", res.raised)
         /\ UNCHANGED <<self_alpha, self_beta>>
    ELSE /\ ret' = Returned("fit", <<>>)
         /\ self_alpha' = Add(self_alpha, res.alpha)
         /\ self_beta' = res.beta

\* self.fit_wrapper_(), res being what fit(self.X, self.sigma, self.lmbda)
\* returns or raises: alpha and beta are assigned together, or not at all
fit_wrapper_(res) ==
    IF res.raised # ""
    THEN /\ ret' = Raised("fit", res.raised)
         /\ UNCHANGED <<self_alpha, self_beta>>
    ELSE /\ ret' = Returned("fit", <<>>)
         /\ self_alpha' = res.alpha
         /\ self_beta' = res.beta

\* fit with the shape checked after self.X is assigned
FitAssignFirst(A, inds) ==
    /\ live
    /\ arg' = A
    /\ repeat' = (ret.op = "fit" /\ arg = A)
    /\ phase' = "fit"
    /\ UNCHANGED hyper
    /\ self_X' = Subsample(A, inds)
    /\ IF ~assert_array_shape2(A, self_D)
       THEN /\ ret' = Raised("fit", "ShapeMismatchError")
            /\ UNCHANGED <<self_alpha, self_beta>>
       ELSE fit_wrapper_(FitTable[<<Subsample(A, inds), self_D, self_sigma, self_lmbda>>])

\* self.fit(A), with inds the random permutation drawn when A has more than
\* self.N rows
Fit(A, inds) ==
    /\ live
    /\ arg' = A
    /\ repeat' = (ret.op = "fit" /\ arg = A)
    /\ phase' = "fit"
    /\ UNCHANGED hyper
    /\ IF ~assert_array_shape2(A, self_D)
       THEN /\ ret' = Raised("fit", "ShapeMismatchError")
            /\ UNCHANGED coeffs
       ELSE /\ self_X' = Subsample(A, inds)
            /\ fit_wrapper_(FitTable[<<Subsample(A, inds), self_D, self_sigma, self_lmbda>>])

\* what a call of log_pdf or grad ends with, as the record of the call
Outcome(op, r) ==
    IF r.raised # "" THEN Raised(op, r.raised)
    ELSE [op |-> op, raised |-> "", ndim |-> r.ndim, val |-> r.val]

\* np.float(...) is a scalar
Scalar(r) == [raised |-> r.raised, ndim |-> 0, val |-> <<r.val>>]

\* self.log_pdf(x)
LogPdf(x) ==
    /\ live
    /\ ret' = Outcome("log_pdf",
                  Scalar(log_pdf(x.rows[1], self_X, self_D, self_sigma, self_alpha, self_beta)))
    /\ arg' = x
    /\ repeat' = FALSE
    /\ UNCHANGED <<phase, hyper, coeffs>>

\* self.grad(x)
Grad(x) ==
    /\ live
    /\ ret' = Outcome("grad",
                  grad(x.rows[1], self_X, self_D, self_sigma, self_alpha, self_beta))
    /\ arg' = x
    /\ repeat' = FALSE
    /\ UNCHANGED <<phase, hyper, coeffs>>

\* the first error among the results, "" if none
RECURSIVE FirstRaised(_, _)
FirstRaised(each, i) ==
    IF i > Len(each) THEN ""
    ELSE IF each[i].raised # "" THEN each[i].raised
    ELSE FirstRaised(each, i + 1)

\* np.array(each): the values in row order, or the first error
Collect(each) ==
    IF FirstRaised(each, 1) # "" THEN Raised("log_pdf_multiple", FirstRaised(each, 1))
    ELSE [op |-> "log_pdf_multiple", raised |-> "", ndim |-> 1,
          val |-> Vec(Len(each), LAMBDA i : each[i].val)]

\* the rows evaluated last to first
log_pdf_multipleReversed(Q) ==
    Collect(Vec(Len(Q.rows), LAMBDA i :
                log_pdf(Q.rows[Len(Q.rows) + 1 - i],
                        self_X, self_D, self_sigma, self_alpha, self_beta)))

\* [self.log_pdf(x) for x in Q]
log_pdf_multiple(Q) ==
    Collect(Vec(Len(Q.rows), LAMBDA i :
                log_pdf(Q.rows[i], self_X, self_D, self_sigma, self_alpha, self_beta)))

\* self.log_pdf_multiple(Q)
LogPdfMultiple(Q) ==
    /\ live
    /\ ret' = log_pdf_multiple(Q)
    /\ arg' = Q
    /\ repeat' = FALSE
    /\ UNCHANGED <<phase, hyper, coeffs>>

\* self.objective(Q)
Objective(Q) ==
    /\ live
    /\ ret' = IF assert_array_shape2(Q, self_D) THEN Returned("objective", <<Zero>>)
              ELSE Raised("objective", "ShapeMismatchError")
    /\ arg' = Q
    /\ repeat' = FALSE
    /\ UNCHANGED <<phase, hyper, coeffs>>

Next ==
    \/ \E s \in SigmaChoices, l \in LmbdaChoices, d \in DChoices, n \in NChoices :
          d * n <= MaxCoeffs /\ Construct(s, l, d, n)
    \/ \E A \in Arrays2(self_D, MaxRows) \cup Shapes1 :
          \E inds \in (IF Len(A.rows) > self_N THEN Perms(Len(A.rows), self_N) ELSE {<<>>}) :
              Fit(A, inds)
    \/ \E x \in Arrays1(self_D) : LogPdf(x)
    \/ \E x \in Arrays1(self_D) : Grad(x)
    \/ \E Q \in Arrays2(self_D, MaxBatch) : LogPdfMultiple(Q)
    \/ \E Q \in Shapes2(MaxBatch) : Objective(Q)

Spec == Init /\ [][Next]_vars

----------------------------------------------------------------------------
(* Claims about the estimator object, checked under Spec                   *)

\* the last call was given a 2-d array of self.D columns
SampleMatrix == arg.ndim = 2 /\ arg.cols = self_D

\* the hyperparameters the specification admits
ValidHyper == self_sigma > 0 /\ self_lmbda >= 0 /\ self_N > 0 /\ self_D > 0

\* C1: a call of fit that fails, at whatever step, leaves X, alpha and beta
\* as they were before the call (stated for the estimators of valid
\* hyperparameters, the only ones the claim knows).
C1_FailedFitKeepsState ==
    [][(ValidHyper /\ ret'.op = "fit" /\ ret'.raised # "") => coeffs' = coeffs]_vars

\* C2: after fit of a sample matrix of more than N rows the retained X has
\* exactly N rows, each a row of the argument, taken at pairwise distinct
\* indices; after fit of any other sample matrix X has the rows of the
\* argument in order; so X never has more than N rows.
C2_RetainedRows ==
    /\ (ret.op = "fit" /\ SampleMatrix) =>
          IF Len(arg.rows) > self_N
          THEN /\ Len(self_X) = self_N
               /\ \E p \in [1..Len(self_X) -> 1..Len(arg.rows)] :
                     /\ \A i, j \in 1..Len(self_X) : p[i] = p[j] => i = j
                     /\ \A i \in 1..Len(self_X) : self_X[i] = arg.rows[p[i]]
          ELSE self_X = arg.rows
    /\ (ret.op = "fit" /\ SampleMatrix) => Len(self_X) <= self_N

\* C3: no estimator exists with sigma <= 0, lmbda < 0, N <= 0 or D <= 0: the
\* constructor has raised InvalidHyperparameterError instead.
C3_HyperparametersValidated ==
    /\ live => (self_sigma > 0 /\ self_lmbda >= 0 /\ self_N > 0 /\ self_D > 0)
    /\ (ret.op = "__init__" /\ ret.raised # "") => ret.raised = "InvalidHyperparameterError"

\* C5: fit of a sample matrix of at most N rows, called again with the same
\* matrix right after, leaves X, alpha and beta as the first call left them.
C5_RepeatedFit ==
    [][(repeat' /\ arg'.ndim = 2 /\ arg'.cols = self_D /\ Len(arg'.rows) <= self_N)
          => coeffs' = coeffs]_vars

\* fit has been called twice in a row with the same two samples, nothing
\* subsampled, and has returned a nonzero alpha
C5_Witness ==
    /\ repeat /\ ret.op = "fit" /\ ret.raised = ""
    /\ SampleMatrix /\ Len(arg.rows) = 2 /\ self_N = 2
    /\ self_alpha # Zero /\ self_beta.ndim = 2

\* C6: fit of an array that is not 2-d with self.D columns raises
\* ShapeMismatchError and leaves X, alpha and beta unchanged.
C6_ShapeCheckedFirst ==
    [][(ret'.op = "fit" /\ (arg'.ndim # 2 \/ arg'.cols # self_D))
          => (ret'.raised = "ShapeMismatchError" /\ coeffs' = coeffs)]_vars

\* a fitted estimator has rejected a 2-d array of other rows and columns
C6_Witness ==
    /\ ret.op = "fit" /\ ret.raised = "ShapeMismatchError"
    /\ arg.ndim = 2 /\ arg.cols # self_D /\ Len(arg.rows) > 0
    /\ self_X # <<>> /\ self_X # arg.rows /\ self_beta.ndim = 2

\* C7: before any fit, log_pdf of a vector of length D returns 0 and grad
\* returns the zero vector of length D; neither raises (stated for the
\* estimators of valid hyperparameters, the only ones the claim knows).
C7_UnfitQueries ==
    (ValidHyper /\ phase = "unfit" /\ ret.op \in {"log_pdf", "grad"} /\ arg.ndim = 1 /\ arg.cols = self_D) =>
        /\ ret.raised = ""
        /\ ret.op = "log_pdf" => (ret.ndim = 0 /\ ret.val = <<Zero>>)
        /\ ret.op = "grad" => (ret.ndim = 1 /\ ret.val = Vec(self_D, LAMBDA j : Zero))

\* the single-point results for the rows of the last argument agree with
\* what the batch call returned: the values in row order if all return, an
\* error if one raises
BatchAsSingles(singles) ==
    IF \A i \in 1..Len(singles) : singles[i].raised = ""
    THEN /\ ret.raised = "" /\ ret.ndim = 1
         /\ Len(ret.val) = Len(arg.rows)
         /\ \A i \in 1..Len(singles) : ret.val[i] = singles[i].val
    ELSE ret.raised # ""

\* C8: log_pdf_multiple of K rows returns K values, value i that of log_pdf
\* for row i, in row order; and log_pdf, grad, log_pdf_multiple and objective
\* leave X, alpha, beta and the hyperparameters unchanged.
C8_BatchAndFrame ==
    /\ []((ret.op = "log_pdf_multiple" /\ arg.ndim = 2) =>
            BatchAsSingles(Vec(Len(arg.rows), LAMBDA i :
                log_pdf(arg.rows[i], self_X, self_D, self_sigma, self_alpha, self_beta))))
    /\ [][ret'.op \in {"log_pdf", "grad", "log_pdf_multiple", "objective"}
            => (hyper' = hyper /\ coeffs' = coeffs)]_vars

\* a fitted estimator has returned two different values for a batch of two
C8_Witness ==
    /\ ret.op = "log_pdf_multiple" /\ ret.raised = ""
    /\ phase = "fit" /\ self_X # <<>> /\ self_beta.ndim = 2
    /\ Len(arg.rows) = 2 /\ Len(ret.val) = 2
    /\ ret.val[1] # ret.val[2]

----------------------------------------------------------------------------
(* The module-level functions on their own: a sample matrix, sigma and     *)
(* lmbda are drawn, and compute_h, build_system and fit are applied to     *)
(* them.  ret holds what the last call returned.                           *)

\* valid bandwidths: l ** 2 is 1/2 and 1
SigmaFn == {1, 2}

\* the sample matrices of d columns
Samples(d) == Rows(d, MaxRows)

InitFn ==
    /\ phase = "none"
    /\ self_D \in {d \in DChoices : d >= 0}
    /\ self_X \in Samples(self_D)
    /\ self_sigma \in SigmaFn
    /\ self_lmbda \in LmbdaChoices
    /\ self_N = 0
    /\ self_alpha = Zero
    /\ self_beta = Zeros1(0)
    /\ ret = Returned("none", <<>>)
    /\ arg = NoArray
    /\ repeat = FALSE

\* the tuple A, b that build_system returns
SystemOf(sys) == [op |-> "build_system", raised |-> sys.raised, ndim |-> 2, val |-> <<sys.A, sys.b>>]

\* the tuple alpha, beta that fit returns
CoeffsOf(res) == [op |-> "fit", raised |-> res.raised, ndim |-> 0, val |-> <<res.alpha, res.beta>>]

\* compute_h(SE_dx_dx_dy_l, X)
CallComputeH ==
    /\ ret' = [op |-> "compute_h", raised |-> "", ndim |-> 2,
               val |-> compute_h(self_X, self_D, LSq(self_sigma))]
    /\ UNCHANGED <<phase, hyper, coeffs, arg, repeat>>

\* build_system(X, sigma, lmbda)
CallBuildSystem ==
    /\ ret' = SystemOf(build_system(self_X, self_D, self_sigma, self_lmbda))
    /\ UNCHANGED <<phase, hyper, coeffs, arg, repeat>>

\* fit(X, sigma, lmbda); with l ** 2 = 1/2 the fractions of a system of more
\* than MaxSolve + 1 unknowns leave the range of the integers
CallFit ==
    /\ (self_sigma = 2 \/ Len(self_X) * self_D <= MaxSolve)
    /\ ret' = CoeffsOf(fit(self_X, self_D, self_sigma, self_lmbda))
    /\ UNCHANGED <<phase, hyper, coeffs, arg, repeat>>

NextFn == CallComputeH \/ CallBuildSystem \/ CallFit

SpecFn == InitFn /\ [][NextFn]_vars

----------------------------------------------------------------------------
(* Claims about the module-level functions, checked under SpecFn           *)

\* the D x D matrix SE_dx_dx_dy(x_a, x_b, l) of the drawn sample matrix
ThirdMixed(a, b) == SE_dx_dx_dy(Col(self_X[a]), Col(self_X[b]), LSq(self_sigma))

\* the sum of f(1), ..., f(n)
SumOf(n, f(_)) == Sum(Vec(n, f))

\* M is a square matrix equal to its transpose
Symmetric(M) ==
    \A i \in 1..Len(M) : Len(M[i]) = Len(M) /\ \A j \in 1..Len(M) : M[i][j] = M[j][i]

\* C9 as stated: row b of compute_h's N x D result is, divided by N, the sum
\* over all a of the row sums of SE_dx_dx_dy(x_a, x_b, l): entry i is the sum
\* over j of entry [i, j].
C9_RowSums ==
    ret.op = "compute_h" =>
        /\ Len(ret.val) = Len(self_X)
        /\ \A b \in 1..Len(self_X) :
              /\ Len(ret.val[b]) = self_D
              /\ \A i \in 1..self_D :
                    ret.val[b][i] =
                        Div(SumOf(Len(self_X), LAMBDA a :
                                SumOf(self_D, LAMBDA j : ThirdMixed(a, b)[i][j])),
                            R(Len(self_X)))

\* C9 amended: row b of compute_h's N x D result is, divided by N, the sum
\* over all a of the column sums of SE_dx_dx_dy(x_a, x_b, l): entry j is the
\* sum over i of entry [i, j].
C9_ColumnSums ==
    ret.op = "compute_h" =>
        /\ Len(ret.val) = Len(self_X)
        /\ \A b \in 1..Len(self_X) :
              /\ Len(ret.val[b]) = self_D
              /\ \A j \in 1..self_D :
                    ret.val[b][j] =
                        Div(SumOf(Len(self_X), LAMBDA a :
                                SumOf(self_D, LAMBDA i : ThirdMixed(a, b)[i][j])),
                            R(Len(self_X)))

\* compute_h has returned for two samples of two columns, the row and the
\* column sums of SE_dx_dx_dy differing for the first
C9_Witness ==
    /\ ret.op = "compute_h"
    /\ self_D = 2 /\ Len(self_X) = 2
    /\ \E i \in 1..2 : SumOf(2, LAMBDA j : ThirdMixed(2, 1)[i][j])
                          # SumOf(2, LAMBDA j : ThirdMixed(2, 1)[j][i])
    /\ \E j \in 1..2 : ret.val[1][j] # Zero

\* what build_system is given: h flattened, the Hessian matrix and xi_norm_2
HVec == Flatten(compute_h(self_X, self_D, LSq(self_sigma)), self_D)
HAll == gaussian_kernel_hessians(self_X, self_D, self_sigma)
XiNorm == compute_xi_norm_2(self_X, LSq(self_sigma)).val

\* C4: the matrix A that build_system returns is symmetric, A[i, j] = A[j, i]
\* for all i, j, and its first column equals its first row, whenever the
\* Hessian matrix it is given is symmetric.
C4_Symmetric ==
    (ret.op = "build_system" /\ ret.raised = "" /\ Symmetric(HAll)) =>
        /\ Symmetric(ret.val[1])
        /\ \A i \in 1..Len(ret.val[1]) : ret.val[1][i][1] = ret.val[1][1][i]

\* build_system has returned a 5 x 5 matrix whose first row is not zero
\* beyond the corner and whose lower-right block is not diagonal
C4_Witness ==
    /\ ret.op = "build_system" /\ ret.raised = ""
    /\ Symmetric(HAll)
    /\ Len(ret.val[1]) = 5
    /\ \E j \in 2..5 : ret.val[1][1][j] # Zero
    /\ \E i, j \in 2..5 : i # j /\ ret.val[1][i][j] # Zero

\* the blocks of A and b as C10 states them, for h of length m
BlocksAsStated(A, b, h, H, xi, n, lmbda) ==
    /\ Len(h) = n * self_D
    /\ Len(A) = Len(h) + 1 /\ Len(b) = Len(h) + 1
    /\ \A i \in 1..Len(A) : Len(A[i]) = Len(h) + 1
    /\ A[1][1] = Add(Div(Dot(h, h), R(n)), Mul(R(lmbda), xi))
    /\ \A j \in 1..Len(h) :
          A[1][j + 1] = Add(Div(SumOf(Len(h), LAMBDA k : Mul(h[k], H[k][j])), R(n)),
                            Mul(R(lmbda), h[j]))
    /\ \A i, j \in 1..Len(h) :
          A[i + 1][j + 1] = Add(Div(SumOf(Len(h), LAMBDA k : Mul(H[i][k], H[k][j])), R(n)),
                                Mul(R(lmbda), H[i][j]))
    /\ b[1] = Neg(xi)
    /\ \A j \in 1..Len(h) : b[j + 1] = Neg(h[j])

\* alpha and beta are the solution x of A x = b: alpha its entry 0, beta the
\* other entries in n rows of d, row-major
SolutionAsStated(A, b, x, alpha, beta, n, d) ==
    /\ Len(x) = n * d + 1
    /\ \A i \in 1..Len(x) : SumOf(Len(x), LAMBDA j : Mul(A[i][j], x[j])) = b[i]
    /\ alpha = x[1]
    /\ beta.ndim = 2 /\ beta.rows = n /\ Len(beta.val) = n
    /\ \A a \in 1..n :
          /\ Len(beta.val[a]) = d
          /\ \A c \in 1..d : beta.val[a][c] = x[1 + (a - 1) * d + c]

\* C10: build_system returns A of size (N D + 1) x (N D + 1) and b of length
\* N D + 1 with A[0, 0] = dot(h, h) / N + lmbda xi_norm, A[0, 1:] = (h . H_all)
\* / N + lmbda h, A[1:, 1:] = (H_all . H_all) / N + lmbda H_all, b[0] =
\* -xi_norm and b[1:] = -flatten(h); fit returns as alpha entry 0 of the
\* solution of A x = b and as beta the other N D entries, reshaped row-major
\* into N rows of D.
C10_SystemAndCoefficients ==
    /\ (ret.op = "build_system" /\ ret.raised = "") =>
          BlocksAsStated(ret.val[1], ret.val[2], HVec, HAll, XiNorm,
                         Len(self_X), self_lmbda)
    /\ (ret.op = "fit" /\ ret.raised = "") =>
          Bind(build_system(self_X, self_D, self_sigma, self_lmbda), LAMBDA sys :
              SolutionAsStated(sys.A, sys.b, solve(sys.A, sys.b).x,
                               ret.val[1], ret.val[2], Len(self_X), self_D))

\* fit has returned for two samples of two columns with lmbda = 1, and beta
\* is not the same read row-major and column-major
C10_Witness ==
    /\ ret.op = "fit" /\ ret.raised = ""
    /\ self_D = 2 /\ Len(self_X) = 2 /\ self_lmbda = 1
    /\ ret.val[2].val[1][2] # ret.val[2].val[2][1]

====
